---------------------------- MODULE Spec2Model ----------------------------
(***************************************************************************)
(* A model of the UDISE education-data pipeline:                           *)
(*   - UDISEDataProcessor.merge_datasets   (src/src/data_processing.py)    *)
(*   - EducationPolicyAnalyzer indicators  (src/src/analysis.py)           *)
(*                                                                         *)
(* A DataFrame is a record [none, cols, rows]: cols is the sequence of     *)
(* column labels (a sequence, because a merge can leave two columns with   *)
(* the same label), rows is a sequence of rows, each a sequence of cells   *)
(* aligned with cols.  Python's None is the record None.                   *)
(***************************************************************************)
EXTENDS Integers, Sequences, FiniteSets, TLC

VARIABLES
    profile_df,     \* merge_datasets argument: the primary table
    enrolment_df,   \* merge_datasets argument: a table or None
    facility_df,    \* merge_datasets argument: a table or None
    teacher_df,     \* merge_datasets argument: a table or None
    arg_merge_key,  \* merge_datasets argument: the caller's merge_key
    merge_key,      \* the local variable merge_key
    merged_df,      \* the local variable merged_df
    trail,          \* the successive values of merged_df, oldest first
    pc,             \* position inside merge_datasets
    printed,        \* what merge_datasets has printed so far
    result,         \* the returned value, once pc = "returned"
    self_df,        \* EducationPolicyAnalyzer.df (self.df)
    base_df,        \* the table read; self.df is base_df with each row repeated
    repeat,         \* how many times each row of base_df is repeated in self.df
    call,           \* the analyzer method that was called last ("idle": none)
    ret,            \* what that call returned or raised
    runs            \* the perform_clustering_analysis calls so far, oldest first

mergeVars == <<profile_df, enrolment_df, facility_df, teacher_df, arg_merge_key,
               merge_key, merged_df, trail, pc, printed, result>>

analyzerVars == <<self_df, base_df, repeat, call, ret, runs>>

vars == <<mergeVars, analyzerVars>>

(***************************************************************************)
(* Bounds of the model.                                                    *)
(***************************************************************************)
MaxRows == 2        \* rows of the primary table in the key-driven runs
MaxSecRows == 2     \* rows of a secondary table in the key-driven runs

KeyVals == {"A", "B"}      \* school identifiers

(***************************************************************************)
(* Values.                                                                 *)
(***************************************************************************)
NoKey == "None"     \* merge_key = None

None == [none |-> TRUE, cols |-> <<>>, rows |-> <<>>]

DataFrame(cols, rows) == [none |-> FALSE, cols |-> cols, rows |-> rows]

\* Cells.  A cell of the join-key column carries a school identifier; every
\* other input cell carries an opaque value that records where it was read
\* from (merge only ever copies such cells); NaN is pandas' missing cell.
NaN == [src |-> "NaN", row |-> 0, val |-> ""]
KeyCell(k) == [src |-> "key", row |-> 0, val |-> k]
DataCell(src, r, c) == [src |-> src, row |-> r, val |-> c]

Range(s) == {s[i] : i \in DOMAIN s}

SeqsUpTo(S, n) == UNION {[1..k -> S] : k \in 0..n}

RECURSIVE Flatten(_)
Flatten(ss) == IF ss = <<>> THEN <<>> ELSE Head(ss) \o Flatten(Tail(ss))

\* The position of the first column labelled c (0 when there is none).
IndexOf(cols, c) ==
    IF c \in Range(cols)
    THEN CHOOSE i \in DOMAIN cols : cols[i] = c /\ \A j \in 1..(i-1) : cols[j] # c
    ELSE 0

possible_keys == <<"pseudocode", "School_Code", "DISE_Code", "UDISE_Code",
                   "school_code", "dise_code", "udise_code", "udisecode">>

(***************************************************************************)
(* merge_datasets, lines 180-184: the loop over possible_keys.  The        *)
(* caller's argument arg is overwritten with None before the loop.         *)
(***************************************************************************)
RECURSIVE FirstPresent(_, _)
FirstPresent(keys, cols) ==
    IF keys = <<>> THEN NoKey
    ELSE IF Head(keys) \in Range(cols) THEN Head(keys)
    ELSE FirstPresent(Tail(keys), cols)

\* Variant: the caller's merge_key is honoured when it is a column.
ResolveKeyUsingArg(cols, arg) ==
    IF arg \in Range(cols) THEN arg ELSE FirstPresent(possible_keys, cols)

\* Variant: with no alias present, fall back to the first column.
ResolveKeyOrFirstColumn(cols, arg) ==
    IF FirstPresent(possible_keys, cols) = NoKey /\ cols # <<>>
    THEN cols[1]
    ELSE FirstPresent(possible_keys, cols)

ResolveKey(cols, arg) == FirstPresent(possible_keys, cols)

(***************************************************************************)
(* pandas DataFrame.merge(right, on=key, how='left', suffixes=('', suffix))*)
(***************************************************************************)
\* The right-hand columns that are not the key, in order.
RightPositions(right, key) ==
    SelectSeq([i \in DOMAIN right.cols |-> i], LAMBDA i : right.cols[i] # key)

\* Labels shared by both sides get the right suffix on the right side; the
\* left suffix is '', so left labels are kept.
RightLabels(left, right, key, suffix) ==
    LET pos == RightPositions(right, key)
    IN  [n \in DOMAIN pos |->
            IF right.cols[pos[n]] \in Range(left.cols)
            THEN right.cols[pos[n]] \o suffix
            ELSE right.cols[pos[n]]]

\* MergeError: the suffix made two right-hand labels equal.
SuffixClash(left, right, key, suffix) ==
    LET labels == RightLabels(left, right, key, suffix)
    IN  \E i, j \in DOMAIN labels : i < j /\ labels[i] = labels[j]

\* Variant: an inner join, which drops a left row without a match.
JoinRowInner(lrow, lk, right, key) ==
    LET rk  == IndexOf(right.cols, key)
        pos == RightPositions(right, key)
        hit == SelectSeq([j \in DOMAIN right.rows |-> j],
                         LAMBDA j : right.rows[j][rk] = lrow[lk])
    IN  [m \in DOMAIN hit |->
            lrow \o [n \in DOMAIN pos |-> right.rows[hit[m]][pos[n]]]]

\* The rows one left row turns into: one per matching right row, in the
\* right table's order, or a single row padded with NaN.
JoinRow(lrow, lk, right, key) ==
    LET rk  == IndexOf(right.cols, key)
        pos == RightPositions(right, key)
        hit == SelectSeq([j \in DOMAIN right.rows |-> j],
                         LAMBDA j : right.rows[j][rk] = lrow[lk])
    IN  IF hit = <<>>
        THEN << lrow \o [n \in DOMAIN pos |-> NaN] >>
        ELSE [m \in DOMAIN hit |->
                 lrow \o [n \in DOMAIN pos |-> right.rows[hit[m]][pos[n]]]]

\* Variant: an outer join, which also keeps the right rows without a match.
LeftJoinOuter(left, right, key, suffix) ==
    LET lk  == IndexOf(left.cols, key)
        rk  == IndexOf(right.cols, key)
        pos == RightPositions(right, key)
        lost == SelectSeq(right.rows,
                          LAMBDA r : \A i \in DOMAIN left.rows :
                                        left.rows[i][lk] # r[rk])
    IN  DataFrame(left.cols \o RightLabels(left, right, key, suffix),
                  Flatten([i \in DOMAIN left.rows |->
                              JoinRow(left.rows[i], lk, right, key)])
                  \o [m \in DOMAIN lost |->
                         [j \in DOMAIN left.cols |->
                             IF j = lk THEN lost[m][rk] ELSE NaN]
                         \o [n \in DOMAIN pos |-> lost[m][pos[n]]]])

LeftJoin(left, right, key, suffix) ==
    LET lk == IndexOf(left.cols, key)
    IN  DataFrame(left.cols \o RightLabels(left, right, key, suffix),
                  Flatten([i \in DOMAIN left.rows |->
                              JoinRow(left.rows[i], lk, right, key)]))

\* Line 174: profile_df.copy().
Copy(df) == df

\* Line 187: the only message merge_datasets prints.
NoKeyWarning == "Warning: No common merge key found. Using index merge."

(***************************************************************************)
(* merge_datasets, lines 190, 193, 196: the guard of each join.            *)
(***************************************************************************)
Joinable(df, key) == ~df.none /\ key \in Range(df.cols)

(***************************************************************************)
(* Input tables.                                                           *)
(***************************************************************************)
\* A table read from source src with the given columns: every column named
\* by a join-key alias holds the school identifiers, every other cell an
\* opaque value.
MkTable(src, cols, keys) ==
    DataFrame(cols,
              [i \in DOMAIN keys |->
                  [j \in DOMAIN cols |->
                      IF cols[j] \in Range(possible_keys)
                      THEN KeyCell(keys[i])
                      ELSE DataCell(src, i, cols[j])]])

ProfileLayouts ==
    { <<"School_Code">>,
      <<"x">>,
      <<"School_Code", "x", "x_enrol">>,
      <<"udisecode", "School_Code", "x">>,
      <<"school_code", "x">> }

SecondaryLayouts(suffix) ==
    { <<"School_Code", "x">>,
      <<"school_code", "x">>,
      <<"x">>,
      <<"School_Code", "x", "x" \o suffix>>,
      <<"School_Code", "udisecode">> }

MergeKeyArgs == {"School_Code", "udisecode", "x"}

\* Runs that vary the key values under one simple layout.
KeyRunSecondaries(src) ==
    {None} \cup {MkTable(src, <<"School_Code", "x">>, ks) :
                    ks \in SeqsUpTo(KeyVals, MaxSecRows)}

KeyRuns ==
    /\ profile_df \in {MkTable("profile", <<"School_Code", "x">>, ks) :
                          ks \in SeqsUpTo(KeyVals, MaxRows)}
    /\ enrolment_df \in KeyRunSecondaries("enrol")
    /\ facility_df \in KeyRunSecondaries("facility")
    /\ teacher_df \in KeyRunSecondaries("teacher")
    /\ arg_merge_key = "School_Code"

\* Runs that vary the column layouts under one simple choice of keys.
SchemaRunSecondaries(src, suffix) ==
    {None} \cup {MkTable(src, cols, <<"A">>) : cols \in SecondaryLayouts(suffix)}

SchemaRuns ==
    /\ profile_df \in {MkTable("profile", cols, <<"A", "B">>) :
                          cols \in ProfileLayouts}
    /\ enrolment_df \in SchemaRunSecondaries("enrol", "_enrol")
    /\ facility_df \in SchemaRunSecondaries("facility", "_facility")
    /\ teacher_df \in SchemaRunSecondaries("teacher", "_teacher")
    /\ arg_merge_key \in MergeKeyArgs

\* A method returned None.
ReturnNone == [exc |-> "none", none |-> TRUE]

\* No analyzer is in use.
AnalyzerIdle ==
    /\ self_df = None
    /\ base_df = None
    /\ repeat = 1
    /\ call = "idle"
    /\ ret = ReturnNone
    /\ runs = <<>>

Init ==
    /\ (KeyRuns \/ SchemaRuns)
    /\ merge_key = arg_merge_key
    /\ merged_df = None
    /\ trail = <<>>
    /\ pc = "start"
    /\ printed = <<>>
    /\ result = None
    /\ AnalyzerIdle

(***************************************************************************)
(* merge_datasets, one action per statement group.                         *)
(***************************************************************************)
\* Lines 174-188: copy the profile, resolve the key, return the copy when
\* no alias is a column of the profile.
MergeStart ==
    /\ pc = "start"
    /\ merged_df' = Copy(profile_df)
    /\ trail' = <<merged_df'>>
    /\ merge_key' = ResolveKey(profile_df.cols, merge_key)
    /\ IF merge_key' = NoKey
       THEN /\ printed' = Append(printed, NoKeyWarning)
            /\ pc' = "returned"
            /\ result' = merged_df'
       ELSE /\ pc' = "enrol"
            /\ UNCHANGED <<printed, result>>
    /\ UNCHANGED <<profile_df, enrolment_df, facility_df, teacher_df,
                   arg_merge_key>>
    /\ UNCHANGED analyzerVars

\* Variant: a secondary that is skipped ends the merging.
JoinStepStopOnSkip(at, df, suffix, next) ==
    /\ pc = at
    /\ IF Joinable(df, merge_key)
       THEN IF SuffixClash(merged_df, df, merge_key, suffix)
            THEN /\ pc' = "raised"
                 /\ UNCHANGED <<merged_df, trail>>
            ELSE /\ merged_df' = LeftJoin(merged_df, df, merge_key, suffix)
                 /\ trail' = Append(trail, merged_df')
                 /\ pc' = next
       ELSE /\ pc' = "return"
            /\ trail' = Append(trail, merged_df)
            /\ UNCHANGED merged_df
    /\ UNCHANGED <<profile_df, enrolment_df, facility_df, teacher_df,
                   arg_merge_key, merge_key, printed, result>>
    /\ UNCHANGED analyzerVars

\* One of the three guarded merges.
JoinStep(at, df, suffix, next) ==
    /\ pc = at
    /\ IF Joinable(df, merge_key)
       THEN IF SuffixClash(merged_df, df, merge_key, suffix)
            THEN /\ pc' = "raised"
                 /\ UNCHANGED <<merged_df, trail>>
            ELSE /\ merged_df' = LeftJoin(merged_df, df, merge_key, suffix)
                 /\ trail' = Append(trail, merged_df')
                 /\ pc' = next
       ELSE /\ pc' = next
            /\ trail' = Append(trail, merged_df)
            /\ UNCHANGED merged_df
    /\ UNCHANGED <<profile_df, enrolment_df, facility_df, teacher_df,
                   arg_merge_key, merge_key, printed, result>>
    /\ UNCHANGED analyzerVars

JoinEnrolment == JoinStep("enrol", enrolment_df, "_enrol", "facility")     \* 190-191
JoinFacility == JoinStep("facility", facility_df, "_facility", "teacher")  \* 193-194
JoinTeacher == JoinStep("teacher", teacher_df, "_teacher", "return")       \* 196-197

\* Line 199.
MergeReturn ==
    /\ pc = "return"
    /\ result' = merged_df
    /\ pc' = "returned"
    /\ UNCHANGED <<profile_df, enrolment_df, facility_df, teacher_df,
                   arg_merge_key, merge_key, merged_df, trail, printed>>
    /\ UNCHANGED analyzerVars

Next ==
    \/ MergeStart
    \/ JoinEnrolment
    \/ JoinFacility
    \/ JoinTeacher
    \/ MergeReturn

Spec == Init /\ [][Next]_vars

(***************************************************************************)
(* Vocabulary of the properties of merge_datasets.                         *)
(***************************************************************************)
NRows(df) == Len(df.rows)

Resolved == pc # "start" /\ merge_key # NoKey

HasAlias(cols) == \E i \in DOMAIN possible_keys : possible_keys[i] \in Range(cols)

\* The identifiers in the column labelled key, top to bottom.
KeysOf(df, key) ==
    [i \in DOMAIN df.rows |-> df.rows[i][IndexOf(df.cols, key)].val]

NoDuplicateKeys(df, key) ==
    \A i, j \in DOMAIN df.rows : i # j => KeysOf(df, key)[i] # KeysOf(df, key)[j]

\* The secondary tables in the order they are merged.
Secondaries == <<enrolment_df, facility_df, teacher_df>>

\* The rows of df cut down to the columns labelled names (first occurrence).
Project(df, names) ==
    [i \in DOMAIN df.rows |->
        [n \in DOMAIN names |-> df.rows[i][IndexOf(df.cols, names[n])]]]

\* fused is orig with every row repeated one or more times, order kept.
RECURSIVE Expands(_, _)
Expands(fused, orig) ==
    IF orig = <<>> THEN fused = <<>>
    ELSE /\ fused # <<>>
         /\ Head(fused) = Head(orig)
         /\ \/ Expands(Tail(fused), Tail(orig))
            \/ Expands(Tail(fused), orig)

DistinctLabels(df) ==
    \A i, j \in DOMAIN df.cols : i # j => df.cols[i] # df.cols[j]

RECURSIVE SumSeq(_)
SumSeq(s) == IF s = <<>> THEN 0 ELSE Head(s) + SumSeq(Tail(s))

(***************************************************************************)
(* C1: when every secondary that holds the resolved key column has no      *)
(* duplicate value in it, the merged table has exactly as many rows as the *)
(* primary after the copy and after each of the three joins, and so has    *)
(* the returned table.                                                     *)
(***************************************************************************)
C1_RowCountPreserved ==
    (/\ Resolved
     /\ \A n \in DOMAIN Secondaries :
           Joinable(Secondaries[n], merge_key)
              => NoDuplicateKeys(Secondaries[n], merge_key))
    => /\ \A n \in DOMAIN trail : NRows(trail[n]) = NRows(profile_df)
       /\ pc = "returned" => NRows(result) = NRows(profile_df)

\* All three secondaries were joined, none with a duplicate key, onto a
\* two-row primary of which one row found no partner in the enrolment
\* table and one did.
C1_Witness ==
    /\ pc = "returned" /\ merge_key # NoKey
    /\ \A n \in DOMAIN Secondaries :
          /\ Joinable(Secondaries[n], merge_key)
          /\ NoDuplicateKeys(Secondaries[n], merge_key)
          /\ NRows(Secondaries[n]) > 0
    /\ NRows(profile_df) = 2
    /\ NRows(result) = 2
    /\ \E i \in DOMAIN profile_df.rows :
          KeysOf(profile_df, merge_key)[i] \notin Range(KeysOf(enrolment_df, merge_key))
    /\ \E i \in DOMAIN profile_df.rows :
          KeysOf(profile_df, merge_key)[i] \in Range(KeysOf(enrolment_df, merge_key))

(***************************************************************************)
(* C2: merge_datasets never returns, without having printed a warning, a   *)
(* table with more rows than the primary (duplicate keys of a secondary    *)
(* are detected and surfaced).                                             *)
(***************************************************************************)
C2_GrowthIsSurfaced ==
    (pc = "returned" /\ NRows(result) > NRows(profile_df)) => printed # <<>>

(***************************************************************************)
(* C3: the merge is a left-outer join on the key.  (a) The returned table, *)
(* cut down to the primary's columns, is the primary's rows in their       *)
(* order, each one or more times.  (b) After a secondary was joined, every *)
(* row whose key does not occur in that secondary has NaN in all the       *)
(* columns that join added, in every later value of the merged table.      *)
(* (c) Every key of the merged table is a key of the primary.              *)
(***************************************************************************)
C3_LeftOuterJoin ==
    Resolved =>
      /\ \A m \in DOMAIN trail :
            /\ Expands(Project(trail[m], profile_df.cols), profile_df.rows)
            /\ Range(KeysOf(trail[m], merge_key))
                  \subseteq Range(KeysOf(profile_df, merge_key))
      /\ \A n \in DOMAIN Secondaries :
            (n + 1 \in DOMAIN trail /\ Joinable(Secondaries[n], merge_key)) =>
               \A m \in (n + 1)..Len(trail) :
                  \A i \in DOMAIN trail[m].rows :
                     KeysOf(trail[m], merge_key)[i]
                           \notin Range(KeysOf(Secondaries[n], merge_key))
                        => \A c \in (Len(trail[n].cols) + 1)..Len(trail[n + 1].cols) :
                              trail[m].rows[i][c] = NaN
      /\ pc = "returned" => result = trail[Len(trail)]

\* Primary keys A, B; the teacher table holds A only and was joined: the
\* returned row for B has the teacher column missing, the row for A has it.
C3_Witness ==
    /\ pc = "returned" /\ merge_key # NoKey
    /\ KeysOf(profile_df, merge_key) = <<"A", "B">>
    /\ enrolment_df.none /\ facility_df.none
    /\ Joinable(teacher_df, merge_key)
    /\ KeysOf(teacher_df, merge_key) = <<"A">>
    /\ NRows(result) = 2
    /\ Len(result.cols) = Len(profile_df.cols) + 1
    /\ result.rows[2][Len(result.cols)] = NaN
    /\ result.rows[1][Len(result.cols)].src = "teacher"

(***************************************************************************)
(* C4: once resolved, merge_key is the alias of possible_keys that is a    *)
(* column of the primary and has no earlier alias of possible_keys among   *)
(* the primary's columns, whatever merge_key the caller passed.            *)
(***************************************************************************)
C4_FirstAliasWins ==
    (pc # "start" /\ HasAlias(profile_df.cols)) =>
       \E i \in DOMAIN possible_keys :
          /\ merge_key = possible_keys[i]
          /\ merge_key \in Range(profile_df.cols)
          /\ \A j \in 1..(i - 1) : possible_keys[j] \notin Range(profile_df.cols)

\* The caller passed udisecode, which is the primary's first column, and
\* School_Code, earlier in possible_keys, was still chosen.
C4_Witness ==
    /\ pc = "returned"
    /\ arg_merge_key = "udisecode"
    /\ profile_df.cols[1] = "udisecode"
    /\ "School_Code" \in Range(profile_df.cols)
    /\ merge_key = "School_Code"

(***************************************************************************)
(* C5: when no alias is a column of the primary, merge_datasets does not   *)
(* raise and returns a table equal to the primary, whatever the secondary  *)
(* tables hold.                                                            *)
(***************************************************************************)
C5_IdentityWithoutKey ==
    (pc # "start" /\ ~HasAlias(profile_df.cols)) =>
       /\ pc \in {"enrol", "facility", "teacher", "return", "returned"}
       /\ \A m \in DOMAIN trail : trail[m] = profile_df
       /\ pc = "returned" => result = profile_df

\* Returned the primary although all three secondaries were loaded, with a
\* column the primary also has.
C5_Witness ==
    /\ pc = "returned"
    /\ ~HasAlias(profile_df.cols)
    /\ NRows(profile_df) > 0
    /\ \A n \in DOMAIN Secondaries :
          ~Secondaries[n].none /\ Range(Secondaries[n].cols) \cap Range(profile_df.cols) # {}
    /\ result = profile_df

Contribution(n) ==
    IF Joinable(Secondaries[n], merge_key) THEN Len(Secondaries[n].cols) - 1 ELSE 0

C7_LabelsStayDistinct ==
    /\ pc # "raised"
    /\ \A m \in DOMAIN trail :
          /\ DistinctLabels(trail[m])
          /\ m > 1 => /\ Range(trail[m - 1].cols) \subseteq Range(trail[m].cols)
                      /\ Expands(Project(trail[m], trail[m - 1].cols),
                                 trail[m - 1].rows)

(***************************************************************************)
(*                      EducationPolicyAnalyzer                            *)
(*                                                                         *)
(* The analyzer's table is a record [none, cols, dtypes, rows]; dtypes     *)
(* gives each column's pandas dtype.  A cell is a number, a text or NaN.   *)
(* Quotients x / (y + 1e-10) are kept exact, as the pair [num |-> x,       *)
(* den |-> y].                                                             *)
(***************************************************************************)
MaxCols == 3        \* columns of a table in the schema-driven runs
MaxARows == 2       \* rows of a table in the value-driven runs
MaxVal == 1         \* largest number in a cell
MaxK == 2           \* largest number of repetitions of every row

Frame(cols, dtypes, rows) ==
    [none |-> FALSE, cols |-> cols, dtypes |-> dtypes, rows |-> rows]

Num(v) == [t |-> "num", n |-> v, s |-> ""]
Text(x) == [t |-> "str", n |-> 0, s |-> x]
Missing == [t |-> "nan", n |-> 0, s |-> ""]

(***************************************************************************)
(* str.lower() and the `in` test on strings.                               *)
(***************************************************************************)
UpperCase == "ABCDEFGHIJKLMNOPQRSTUVWXYZ"
LowerCase == "abcdefghijklmnopqrstuvwxyz"

LowerChar(c) ==
    IF \E i \in 1..Len(UpperCase) : SubSeq(UpperCase, i, i) = c
    THEN LET i == CHOOSE i \in 1..Len(UpperCase) : SubSeq(UpperCase, i, i) = c
         IN  SubSeq(LowerCase, i, i)
    ELSE c

RECURSIVE LowerFrom(_, _)
LowerFrom(str, i) ==
    IF i > Len(str) THEN ""
    ELSE LowerChar(SubSeq(str, i, i)) \o LowerFrom(str, i + 1)

Lower(str) == LowerFrom(str, 1)

Contains(str, kw) ==
    \E i \in 1..(Len(str) - Len(kw) + 1) : SubSeq(str, i, i + Len(kw) - 1) = kw

ContainsAny(str, kws) == \E kw \in kws : Contains(str, kw)

(***************************************************************************)
(* The column names of the model's tables.                                 *)
(***************************************************************************)
ColumnNames ==
    <<"State", "District", "Girls_Enrolled", "Girls_Toilet", "Boys_Enrolled",
      "Female_Teachers", "Male_Students", "Total_Teachers", "Drinking_Water",
      "Rural_Schools", "Urban_Schools", "rural_urban">>

(***************************************************************************)
(* The column tests of the four indicator methods.  Each test is evaluated *)
(* once per column name of the model and looked up afterwards.             *)
(***************************************************************************)
\* calculate_enrolment_metrics, lines 30-31, 34, 35.
MatchesGender(col) == ContainsAny(Lower(col), {"girl", "female", "boy", "male"})
MatchesGirls(col) == ContainsAny(Lower(col), {"girl", "female"})
MatchesBoys(col) == ContainsAny(Lower(col), {"boy", "male"})

\* calculate_teacher_student_ratio, lines 61-63.
MatchesTeacher(col) == Contains(Lower(col), "teacher")
MatchesStudent(col) == ContainsAny(Lower(col), {"student", "enrolment", "enrolled"})

\* analyze_facility_availability, lines 92-93.
MatchesFacility(col) ==
    ContainsAny(Lower(col),
                {"toilet", "water", "library", "computer", "internet", "electricity"})

\* calculate_equity_indicators, lines 181-182.
MatchesRural(col) == Contains(Lower(col), "rural")
MatchesUrban(col) == Contains(Lower(col), "urban")

gender_names == {col \in Range(ColumnNames) : MatchesGender(col)}
girls_names == {col \in Range(ColumnNames) : MatchesGirls(col)}
boys_names == {col \in Range(ColumnNames) : MatchesBoys(col)}
teacher_names == {col \in Range(ColumnNames) : MatchesTeacher(col)}
student_names == {col \in Range(ColumnNames) : MatchesStudent(col)}
facility_names == {col \in Range(ColumnNames) : MatchesFacility(col)}
rural_names == {col \in Range(ColumnNames) : MatchesRural(col)}
urban_names == {col \in Range(ColumnNames) : MatchesUrban(col)}

IsGenderCol(col) == col \in gender_names
IsGirlsCol(col) == col \in girls_names
IsBoysCol(col) == col \in boys_names
IsTeacherCol(col) == col \in teacher_names
IsStudentCol(col) == col \in student_names
IsFacilityCol(col) == col \in facility_names
IsRuralCol(col) == col \in rural_names
IsUrbanCol(col) == col \in urban_names

state_aliases == <<"State", "state", "STATE", "State_Name">>

(***************************************************************************)
(* pandas sums.  A sum skips NaN; a sum that meets a text is a text (or    *)
(* raises), and arithmetic on it raises TypeError.                         *)
(***************************************************************************)
Column(t, col) == [i \in DOMAIN t.rows |-> t.rows[i][IndexOf(t.cols, col)]]

RECURSIVE SumCells(_)
SumCells(cells) ==
    IF cells = <<>> THEN [text |-> FALSE, n |-> 0]
    ELSE LET rest == SumCells(Tail(cells))
             c == Head(cells)
         IN  [text |-> rest.text \/ c.t = "str",
              n |-> rest.n + (IF c.t = "num" THEN c.n ELSE 0)]

\* self.df[col].sum()
ColumnSum(t, col) == SumCells(Column(t, col))

\* self.df[cols].sum(axis=1)
RowSums(t, cols) ==
    [i \in DOMAIN t.rows |->
        SumCells([k \in DOMAIN cols |-> t.rows[i][IndexOf(t.cols, cols[k])]])]

Scalar(v) == [kind |-> "scalar", vals |-> <<v>>]
Series(vs) == [kind |-> "series", vals |-> vs]
Absent == [kind |-> "absent", vals |-> <<>>]

\* Lines 38, 39: one column gives a scalar, several give the per-row sums.
GenderTotal(t, cols) ==
    IF Len(cols) = 1 THEN Scalar(ColumnSum(t, cols[1]))
    ELSE Series(RowSums(t, cols))

\* Lines 185, 186: .sum(axis=1).sum()
EquityTotal(t, cols) ==
    IF Len(cols) = 1 THEN ColumnSum(t, cols[1])
    ELSE SumCells(Flatten([k \in DOMAIN cols |-> Column(t, cols[k])]))

\* x / (y + 1e-10), with a scalar broadcast against a Series.
Divide(x, y) ==
    LET kind == IF x.kind = "scalar" /\ y.kind = "scalar" THEN "scalar" ELSE "series"
        len  == IF x.kind = "series" THEN Len(x.vals) ELSE Len(y.vals)
        at(v, i) == IF v.kind = "scalar" THEN v.vals[1] ELSE v.vals[i]
    IN  [kind |-> kind,
         vals |-> [i \in 1..len |-> [num |-> at(x, i).n, den |-> at(y, i).n]],
         raises |-> \/ \E i \in DOMAIN x.vals : x.vals[i].text
                    \/ \E i \in DOMAIN y.vals : y.vals[i].text]

Raised(exc) == [exc |-> exc, none |-> FALSE]

\* groupby(col).size(): the rows per value of col, NaN left out.
GroupSizes(t, cols) ==
    LET keyOf(i) == [k \in DOMAIN cols |-> t.rows[i][IndexOf(t.cols, cols[k])]]
        rowsIn == {i \in DOMAIN t.rows : \A k \in DOMAIN cols : keyOf(i)[k] # Missing}
    IN  {[key |-> keyOf(i), size |-> Cardinality({j \in rowsIn : keyOf(j) = keyOf(i)})] :
            i \in rowsIn}

(***************************************************************************)
(* calculate_enrolment_metrics(), lines 21-52, with the default arguments. *)
(***************************************************************************)
calculate_enrolment_metrics(t) ==
    IF t.none THEN ReturnNone
    ELSE
    LET gender_cols == SelectSeq(t.cols, IsGenderCol)
        girls_col == SelectSeq(gender_cols, IsGirlsCol)
        boys_col == SelectSeq(gender_cols, IsBoysCol)
        has_gpi == Len(gender_cols) >= 2 /\ girls_col # <<>> /\ boys_col # <<>>
        gpi == Divide(GenderTotal(t, girls_col), GenderTotal(t, boys_col))
        has_state == "State" \in Range(t.cols)
        has_district == "District" \in Range(t.cols)
    IN  IF has_gpi /\ gpi.raises THEN Raised("TypeError")
        ELSE IF has_district /\ ~has_state THEN Raised("KeyError")
        ELSE [exc |-> "none", none |-> FALSE,
              gender_parity_index |->
                  IF has_gpi THEN [kind |-> gpi.kind, vals |-> gpi.vals] ELSE Absent,
              state_enrolment |->
                  IF has_state THEN GroupSizes(t, <<"State">>) ELSE {},
              district_enrolment |->
                  IF has_district THEN GroupSizes(t, <<"State", "District">>) ELSE {}]

(***************************************************************************)
(* calculate_teacher_student_ratio(), lines 54-84.                         *)
(***************************************************************************)
calculate_teacher_student_ratio(t) ==
    IF t.none THEN ReturnNone
    ELSE
    LET teacher_cols == SelectSeq(t.cols, IsTeacherCol)
        student_cols == SelectSeq(t.cols, IsStudentCol)
        state_col == FirstPresent(state_aliases, t.cols)
        states == {c \in Range(Column(t, state_col)) : c # Missing}
        group(st) == SelectSeq(t.rows, LAMBDA r : r[IndexOf(t.cols, state_col)] = st)
        sumOf(st, col) == SumCells([i \in DOMAIN group(st) |->
                                       group(st)[i][IndexOf(t.cols, col)]])
    IN  IF teacher_cols = <<>> \/ student_cols = <<>> THEN ReturnNone
        ELSE IF state_col = NoKey THEN ReturnNone
        ELSE IF \E st \in states : \/ sumOf(st, teacher_cols[1]).text
                                   \/ sumOf(st, student_cols[1]).text
             THEN Raised("TypeError")
        ELSE [exc |-> "none", none |-> FALSE,
              aggregated |->
                 {[state |-> st,
                   teachers |-> sumOf(st, teacher_cols[1]).n,
                   students |-> sumOf(st, student_cols[1]).n,
                   TSR |-> [num |-> sumOf(st, student_cols[1]).n,
                            den |-> sumOf(st, teacher_cols[1]).n]] : st \in states}]

(***************************************************************************)
(* analyze_facility_availability(), lines 86-110.                          *)
(***************************************************************************)
FacilityEntry(t, col) ==
    LET dtype == t.dtypes[IndexOf(t.cols, col)]
        total == Len(t.rows)
        available ==
            IF dtype \in {"int64", "float64"}
            THEN Cardinality({i \in DOMAIN t.rows :
                                 Column(t, col)[i].t = "num" /\ Column(t, col)[i].n > 0})
            ELSE 0
    IN  IF dtype \in {"object", "string"}
        THEN [kind |-> "value_counts",
              counts |-> GroupSizes(t, <<col>>),
              available |-> 0,
              percentage |-> [num |-> 0, den |-> 1]]
        ELSE [kind |-> "numeric",
              counts |-> {},
              available |-> available,
              percentage |-> IF total > 0
                             THEN [num |-> available * 100, den |-> total]
                             ELSE [num |-> 0, den |-> 1]]

analyze_facility_availability(t) ==
    IF t.none THEN ReturnNone
    ELSE LET facility_cols == SelectSeq(t.cols, IsFacilityCol)
         IN  [exc |-> "none", none |-> FALSE,
              facility_analysis |->
                  [col \in Range(facility_cols) |-> FacilityEntry(t, col)]]

(***************************************************************************)
(* calculate_equity_indicators(), lines 174-190.                           *)
(***************************************************************************)
calculate_equity_indicators(t) ==
    IF t.none THEN ReturnNone
    ELSE
    LET rural_cols == SelectSeq(t.cols, IsRuralCol)
        urban_cols == SelectSeq(t.cols, IsUrbanCol)
        has_ratio == rural_cols # <<>> /\ urban_cols # <<>>
        rural_total == EquityTotal(t, rural_cols)
        urban_total == EquityTotal(t, urban_cols)
    IN  IF has_ratio /\ (rural_total.text \/ urban_total.text) THEN Raised("TypeError")
        ELSE [exc |-> "none", none |-> FALSE,
              has_ratio |-> has_ratio,
              rural_urban_ratio |->
                  IF has_ratio
                  THEN [num |-> rural_total.n, den |-> urban_total.n]
                  ELSE [num |-> 0, den |-> 0]]

(***************************************************************************)
(* The tables an analyzer is built on.                                     *)
(***************************************************************************)
States == {"S1", "S2"}

\* Every row k times, in place.
RepeatRows(t, k) ==
    IF t.none THEN t
    ELSE Frame(t.cols, t.dtypes,
               [i \in 1..(k * Len(t.rows)) |-> t.rows[((i - 1) \div k) + 1]])

\* The dtypes that are numbers to numpy (np.number); the model's tables
\* have these and "object".
NumericDtypes == {"int64", "int32", "float64"}

\* The cells a column of the given dtype can hold.
CellsOf(dtype) ==
    IF dtype \in {"int64", "int32"} THEN {Num(v) : v \in 0..MaxVal}
    ELSE IF dtype = "float64" THEN {Num(v) : v \in 0..MaxVal} \cup {Missing}
    ELSE {Text(x) : x \in States}

\* The rows a table with the given dtypes can hold.
RowsOf(dtypes) ==
    {r \in [DOMAIN dtypes -> UNION {CellsOf(dtypes[j]) : j \in DOMAIN dtypes}] :
        \A j \in DOMAIN dtypes : r[j] \in CellsOf(dtypes[j])}

\* A one-row table over up to MaxCols of the names, each column numeric or
\* textual.
SchemaTable(t) ==
    \E pick \in SUBSET Range(ColumnNames) :
       /\ Cardinality(pick) <= MaxCols
       /\ LET cols == SelectSeq(ColumnNames, LAMBDA c : c \in pick)
          IN  \E dtypes \in [DOMAIN cols -> {"int64", "object"}] :
                 t = Frame(cols, dtypes,
                           << [j \in DOMAIN cols |->
                                  IF dtypes[j] = "object" THEN Text("S1") ELSE Num(1)] >>)

\* Layouts whose cells are varied: the columns and their dtypes.
GenderLayouts ==
    { << <<"Girls_Enrolled", "int64">>, <<"Boys_Enrolled", "int64">> >>,
      << <<"Girls_Enrolled", "int64">>, <<"Girls_Toilet", "int64">>,
         <<"Boys_Enrolled", "int64">> >>,
      << <<"Female_Teachers", "float64">>, <<"Male_Students", "int64">> >> }

OtherLayouts ==
    { << <<"State", "object">>, <<"Total_Teachers", "int64">>,
         <<"Male_Students", "int64">> >>,
      << <<"Drinking_Water", "float64">> >>,
      << <<"Drinking_Water", "int32">> >>,
      << <<"Rural_Schools", "int64">>, <<"Urban_Schools", "int64">> >> }

\* A table of up to MaxARows rows over one of the layouts, with any cells.
ValueTable(t, layouts) ==
    \E layout \in layouts :
       LET cols == [j \in DOMAIN layout |-> layout[j][1]]
           dtypes == [j \in DOMAIN layout |-> layout[j][2]]
       IN  \E n \in 0..MaxARows :
              \E rows \in [1..n -> RowsOf(dtypes)] :
                 t = Frame(cols, dtypes, rows)

\* merge_datasets is not running.
MergeIdle ==
    /\ profile_df = None /\ enrolment_df = None
    /\ facility_df = None /\ teacher_df = None
    /\ arg_merge_key = NoKey /\ merge_key = NoKey
    /\ merged_df = None /\ trail = <<>>
    /\ pc = "idle" /\ printed = <<>> /\ result = None

AnalyzerInit ==
    /\ MergeIdle
    /\ \/ base_df = None /\ repeat = 1
       \/ SchemaTable(base_df) /\ repeat = 1
       \/ ValueTable(base_df, OtherLayouts) /\ repeat = 1
       \/ ValueTable(base_df, GenderLayouts) /\ repeat \in 1..MaxK
    /\ self_df = RepeatRows(base_df, repeat)
    /\ call = "idle"
    /\ ret = ReturnNone
    /\ runs = <<>>

(***************************************************************************)
(* One action per indicator method; none of them changes self.df.          *)
(***************************************************************************)
CallEnrolmentMetrics ==
    /\ call' = "calculate_enrolment_metrics"
    /\ ret' = calculate_enrolment_metrics(self_df)
    /\ UNCHANGED <<self_df, base_df, repeat, runs, mergeVars>>

CallTeacherStudentRatio ==
    /\ call' = "calculate_teacher_student_ratio"
    /\ ret' = calculate_teacher_student_ratio(self_df)
    /\ UNCHANGED <<self_df, base_df, repeat, runs, mergeVars>>

CallFacilityAvailability ==
    /\ call' = "analyze_facility_availability"
    /\ ret' = analyze_facility_availability(self_df)
    /\ UNCHANGED <<self_df, base_df, repeat, runs, mergeVars>>

CallEquityIndicators ==
    /\ call' = "calculate_equity_indicators"
    /\ ret' = calculate_equity_indicators(self_df)
    /\ UNCHANGED <<self_df, base_df, repeat, runs, mergeVars>>

AnalyzerNext ==
    \/ CallEnrolmentMetrics
    \/ CallTeacherStudentRatio
    \/ CallFacilityAvailability
    \/ CallEquityIndicators

SpecAnalyzer == AnalyzerInit /\ [][AnalyzerNext]_vars

(***************************************************************************)
(* Vocabulary of the properties of the indicator methods.                  *)
(***************************************************************************)
Returned(method) == call = method /\ ~ret.none /\ ret.exc = "none"

\* The sum of every number in the columns of t chosen by the test.
TotalOver(t, Test(_)) ==
    SumSeq([i \in DOMAIN t.rows |->
               SumSeq([j \in DOMAIN t.cols |->
                          IF Test(t.cols[j]) /\ t.rows[i][j].t = "num"
                          THEN t.rows[i][j].n ELSE 0])])

\* A polynomial c[1] + c[2]*e + c[3]*e^2 in e = 1e-10 with integer
\* coefficients far below 1e10 is <= 0 exactly when its coefficients are
\* lexicographically <= 0.
PolyLeqZero(c) ==
    \/ c[1] < 0
    \/ c[1] = 0 /\ c[2] < 0
    \/ c[1] = 0 /\ c[2] = 0 /\ c[3] <= 0

\* |a - b| <= 1e-10 * max(a, b) for a = a.num / (a.den + 1e-10) and b
\* likewise, cleared of the (positive) denominators: with
\* X = a.num * (b.den + e) and Y = b.num * (a.den + e), |X - Y| <= e * max(X, Y).
Close(a, b) ==
    LET X == <<a.num * b.den, a.num>>
        Y == <<b.num * a.den, b.num>>
        xIsMax == PolyLeqZero(<<Y[1] - X[1], Y[2] - X[2], 0>>)
        Hi == IF xIsMax THEN X ELSE Y
        Lo == IF xIsMax THEN Y ELSE X
    IN  PolyLeqZero(<<Hi[1] - Lo[1], Hi[2] - Lo[2] - Hi[1], 0 - Hi[2]>>)

\* rep is the index orig of a table after every row was repeated k times:
\* the same scalar, or the same Series with every entry k times.
SameIndex(rep, orig, k) ==
    /\ rep.kind = orig.kind
    /\ Len(rep.vals) = (IF orig.kind = "series" THEN k ELSE 1) * Len(orig.vals)
    /\ \A i \in DOMAIN rep.vals :
          Close(rep.vals[i],
                orig.vals[IF orig.kind = "series" THEN ((i - 1) \div k) + 1 ELSE i])

(***************************************************************************)
(* C8: none of the four indicator methods raises, whatever role columns    *)
(* the table has and whatever their dtype: each returns a result or None.  *)
(***************************************************************************)
C8_IndicatorsNeverRaise == ret.exc = "none"

(***************************************************************************)
(* C9: a gender parity index returned by calculate_enrolment_metrics is    *)
(* one scalar, the sum of all cells of all girl/female columns over the    *)
(* sum of all cells of all boy/male columns plus 1e-10, for one or for     *)
(* several columns of each kind.                                           *)
(***************************************************************************)
C9_IndexIsOneScalar ==
    (/\ Returned("calculate_enrolment_metrics")
     /\ ret.gender_parity_index.kind # "absent")
    => ret.gender_parity_index =
          [kind |-> "scalar",
           vals |-> << [num |-> TotalOver(self_df, MatchesGirls),
                        den |-> TotalOver(self_df, MatchesBoys)] >>]

(***************************************************************************)
(* C10: the gender parity index of a table with every row repeated k       *)
(* times equals, within a relative tolerance of 1e-10, the index of the    *)
(* table itself, also when the boys total is 0 and the girls total is not. *)
(***************************************************************************)
C10_RepetitionKeepsIndex ==
    (/\ Returned("calculate_enrolment_metrics")
     /\ calculate_enrolment_metrics(base_df).exc = "none")
    => SameIndex(ret.gender_parity_index,
                 calculate_enrolment_metrics(base_df).gender_parity_index,
                 repeat)

(***************************************************************************)
(* The columns each method reads, as its list comprehensions select them.  *)
(***************************************************************************)
\* Lines 30-31 and 34: girls_col.
GirlsColumns(t) == SelectSeq(SelectSeq(t.cols, IsGenderCol), IsGirlsCol)

\* Lines 30-31 and 35: boys_col.
BoysColumns(t) == SelectSeq(SelectSeq(t.cols, IsGenderCol), IsBoysCol)

\* Lines 33, 37, 38-39: the columns summed for the gender parity index.
GenderColumnsSummed(t) ==
    IF /\ Len(SelectSeq(t.cols, IsGenderCol)) >= 2
       /\ GirlsColumns(t) # <<>>
       /\ BoysColumns(t) # <<>>
    THEN Range(GirlsColumns(t)) \cup Range(BoysColumns(t))
    ELSE {}

\* Lines 181, 182: rural_cols, urban_cols.
RuralColumns(t) == SelectSeq(t.cols, IsRuralCol)
UrbanColumns(t) == SelectSeq(t.cols, IsUrbanCol)

\* The rows of t whose cell in column col is the cell st.
RowsOfState(t, col, st) == {i \in DOMAIN t.rows : Column(t, col)[i] = st}

\* The sum of the numbers of column col over the rows in the set among.
SumAmong(t, col, among) ==
    SumSeq([i \in DOMAIN t.rows |->
               IF i \in among /\ Column(t, col)[i].t = "num"
               THEN Column(t, col)[i].n ELSE 0])

(***************************************************************************)
(* C11: calculate_teacher_student_ratio returns None when the table has    *)
(* none of the state aliases; otherwise it returns one row per distinct    *)
(* value of the first alias present, whose TSR is that state's sum of the  *)
(* student column over that state's sum of the teacher column plus 1e-10.  *)
(***************************************************************************)
C11_RatioPerState ==
    call = "calculate_teacher_student_ratio" =>
       IF self_df.none THEN ret.none
       ELSE IF FirstPresent(state_aliases, self_df.cols) = NoKey THEN ret.none
       ELSE LET state_col == FirstPresent(state_aliases, self_df.cols)
                teachers == SelectSeq(self_df.cols, MatchesTeacher)
                students == SelectSeq(self_df.cols, MatchesStudent)
                values == Range(Column(self_df, state_col)) \ {Missing}
            IN  /\ Returned("calculate_teacher_student_ratio")
                /\ {row.state : row \in ret.aggregated} = values
                /\ Cardinality(ret.aggregated) = Cardinality(values)
                /\ \A row \in ret.aggregated :
                      LET among == RowsOfState(self_df, state_col, row.state)
                      IN  row.TSR = [num |-> SumAmong(self_df, students[1], among),
                                     den |-> SumAmong(self_df, teachers[1], among)]

(***************************************************************************)
(* C12: for every numeric facility column analyze_facility_availability    *)
(* reports available = the number of rows whose value is > 0 (a missing    *)
(* cell is not counted) and percentage = 100 * available / total rows,     *)
(* which lies in [0, 100] and is exactly 0 for a table without rows.       *)
(***************************************************************************)
C12_FacilityCoverage ==
    Returned("analyze_facility_availability") =>
       \A col \in DOMAIN ret.facility_analysis :
          self_df.dtypes[IndexOf(self_df.cols, col)] \in NumericDtypes =>
             LET entry == ret.facility_analysis[col]
                 total == Len(self_df.rows)
                 positive == Cardinality({i \in DOMAIN self_df.rows :
                                 /\ Column(self_df, col)[i].t = "num"
                                 /\ Column(self_df, col)[i].n > 0})
             IN  /\ entry.kind = "numeric"
                 /\ entry.available = positive
                 /\ entry.percentage =
                       (IF total = 0 THEN [num |-> 0, den |-> 1]
                        ELSE [num |-> 100 * positive, den |-> total])
                 /\ 0 <= entry.percentage.num
                 /\ entry.percentage.num <= 100 * entry.percentage.den

(***************************************************************************)
(* C15: a column is used under one role only, chosen by the precedence     *)
(* Region > Gender > Facility > NumericMetric: no column that the gender   *)
(* computation of a table sums is also analysed by the facility            *)
(* computation of that table.                                              *)
(***************************************************************************)
C15_OneRolePerColumn ==
    Returned("analyze_facility_availability") =>
       DOMAIN ret.facility_analysis \cap GenderColumnsSummed(self_df) = {}

(***************************************************************************)
(* C17: in calculate_enrolment_metrics the columns summed as girls and the *)
(* columns summed as boys are disjoint: no column is counted both in the   *)
(* numerator and in the denominator of the gender parity index.            *)
(***************************************************************************)
C17_GirlsAndBoysDisjoint ==
    (/\ Returned("calculate_enrolment_metrics")
     /\ ret.gender_parity_index.kind # "absent")
    => Range(GirlsColumns(self_df)) \cap Range(BoysColumns(self_df)) = {}

(***************************************************************************)
(* C18: calculate_equity_indicators produces rural_urban_ratio exactly     *)
(* when the table has a column with "rural" and a column with "urban" in   *)
(* its name; the ratio is the sum of all cells of the former over the sum  *)
(* of all cells of the latter plus 1e-10, and no column is in both sums.   *)
(***************************************************************************)
C18_RuralUrbanRatio ==
    Returned("calculate_equity_indicators") =>
       LET rural == {col \in Range(self_df.cols) : MatchesRural(col)}
           urban == {col \in Range(self_df.cols) : MatchesUrban(col)}
       IN  /\ ret.has_ratio <=> (rural # {} /\ urban # {})
           /\ ret.has_ratio =>
                 /\ ret.rural_urban_ratio =
                       [num |-> TotalOver(self_df, MatchesRural),
                        den |-> TotalOver(self_df, MatchesUrban)]
                 /\ Range(RuralColumns(self_df)) \cap Range(UrbanColumns(self_df)) = {}

(***************************************************************************)
(*          EducationPolicyAnalyzer.perform_clustering_analysis            *)
(*                                                                         *)
(* The feature matrix holds integers.  StandardScaler divides feature f by *)
(* its standard deviation, so a squared distance in the scaled space is    *)
(* the sum over f of (x[f] - c[f])^2 / var[f]; distances are compared      *)
(* exactly, cleared of their denominators.  A centre is the mean of its    *)
(* members, kept as the pair [sum, count].                                 *)
(***************************************************************************)
MaxClusters == 2    \* largest n_clusters a caller passes
MaxCRows == 3       \* rows of a table that is clustered
MaxRuns == 2        \* calls of perform_clustering_analysis in a behaviour
MaxFeatures == 20   \* numeric_cols[:20]
random_state == 42  \* KMeans(..., random_state=42)
MaxIter == 10       \* iterations of Lloyd's algorithm that are followed

\* The sequence f as an explicit tuple: its entries are computed once, not
\* at every application of f.
AsTuple(f) == <<>> \o f

\* features=None, or a list of column names.
FeaturesNone == [none |-> TRUE, cols |-> <<>>]
FeatureList(cols) == [none |-> FALSE, cols |-> cols]

\* self.df.select_dtypes(include=[np.number]).columns
numeric_cols(t) ==
    LET at == SelectSeq([j \in DOMAIN t.cols |-> j],
                        LAMBDA j : t.dtypes[j] \in NumericDtypes)
    IN  [i \in DOMAIN at |-> t.cols[at[i]]]

\* seq[:n]
Take(seq, n) == SubSeq(seq, 1, IF Len(seq) < n THEN Len(seq) ELSE n)

\* .fillna(0) on one cell
FillNa(cell) == IF cell = Missing THEN Num(0) ELSE cell

\* X = self.df[features].fillna(0)
FeatureMatrix(t, features) ==
    AsTuple([i \in DOMAIN t.rows |->
        AsTuple([f \in DOMAIN features |->
                    FillNa(t.rows[i][IndexOf(t.cols, features[f])])])])

RECURSIVE Product(_)
Product(s) == IF s = <<>> THEN 1 ELSE Head(s) * Product(Tail(s))

\* StandardScaler: n^2 times the variance of feature f of the matrix X.
Spread(X, f) ==
    LET total == SumSeq([i \in DOMAIN X |-> X[i][f]])
    IN  Len(X) * SumSeq([i \in DOMAIN X |-> X[i][f] * X[i][f]]) - total * total

\* StandardScaler: the weight of feature f in a scaled squared distance,
\* times the product of all non-zero spreads.  A feature without variance
\* is scaled by 1 and so is 0 everywhere after centring: its weight is 0.
ScaleWeights(X, nf) ==
    LET spread == AsTuple([f \in 1..nf |-> Spread(X, f)])
    IN  AsTuple([f \in 1..nf |->
                    IF spread[f] = 0 THEN 0
                    ELSE Product([g \in 1..nf |->
                                     IF g = f \/ spread[g] = 0 THEN 1 ELSE spread[g]])])

\* c.count^2 times the scaled squared distance from the row x to the centre c.
Dist(x, c, w) ==
    SumSeq([f \in DOMAIN w |->
               w[f] * (c.count * x[f] - c.sum[f]) * (c.count * x[f] - c.sum[f])])

\* x is strictly nearer to the centre a than to the centre b.
Nearer(x, a, b, w) ==
    Dist(x, a, w) * b.count * b.count < Dist(x, b, w) * a.count * a.count

\* argmin: the first of the nearest centres.
Label(x, centres, w) ==
    CHOOSE j \in DOMAIN centres :
       \A l \in DOMAIN centres :
          IF l < j THEN Nearer(x, centres[j], centres[l], w)
          ELSE ~Nearer(x, centres[l], centres[j], w)

\* Lloyd's iteration: label every row by its nearest centre, move every
\* centre to the mean of its rows (a centre without rows stays), until the
\* centres stay or MaxIter is reached.
RECURSIVE Lloyd(_, _, _, _)
Lloyd(X, w, centres, iter) ==
    LET labels == AsTuple([i \in DOMAIN X |-> Label(X[i], centres, w)])
        moved == AsTuple([j \in DOMAIN centres |->
                    LET members == {i \in DOMAIN X : labels[i] = j}
                    IN  IF members = {} THEN centres[j]
                        ELSE [sum |-> AsTuple([f \in DOMAIN w |->
                                         SumSeq([i \in DOMAIN X |->
                                                   IF i \in members THEN X[i][f] ELSE 0])]),
                              count |-> Cardinality(members)]])
    IN  IF moved = centres \/ iter >= MaxIter THEN labels
        ELSE Lloyd(X, w, moved, iter + 1)

\* The generator behind random_state: its stream is a function of the seed
\* alone.  A small linear congruential generator stands for it.
Lcg(x) == (x * 75 + 74) % 65537

RECURSIVE DrawFrom(_, _, _)
DrawFrom(x, remaining, k) ==
    IF k = 0 THEN <<>>
    ELSE LET at == (x % Len(remaining)) + 1
         IN  <<remaining[at]>> \o
             DrawFrom(Lcg(x),
                      [i \in 1..(Len(remaining) - 1) |->
                          IF i < at THEN remaining[i] ELSE remaining[i + 1]],
                      k - 1)

\* The k rows the seeded generator picks as the first centres.
Draw(seed, n, k) == DrawFrom(Lcg(seed), [i \in 1..n |-> i], k)

\* Every choice of k distinct rows among n as first centres.
Centres(n, k) ==
    IF n < k THEN {<<>>}
    ELSE {init \in [1..k -> 1..n] : \A a, b \in 1..k : init[a] = init[b] => a = b}

\* The first centres of an estimator that was given no seed: any rows.
KMeansInitUnseeded(seed, n, k, init) ==
    IF n < k THEN init = <<>> ELSE init \in Centres(n, k)

\* The first centres of KMeans(n_clusters=k, random_state=seed) on n rows.
KMeansInit(seed, n, k, init) ==
    IF n < k THEN init = <<>> ELSE init = Draw(seed, n, k)

\* kmeans.fit_predict(X_scaled): the 0-based label of every row.
fit_predict(X, nf, init) ==
    LET w == ScaleWeights(X, nf)
        first == AsTuple([j \in DOMAIN init |-> [sum |-> X[init[j]], count |-> 1]])
        labels == Lloyd(X, w, first, 1)
    IN  AsTuple([i \in DOMAIN X |-> labels[i] - 1])

\* A column is always added at the end, also under a label the table has.
AppendColumn(t, col, dtype, cells) ==
    Frame(Append(t.cols, col), Append(t.dtypes, dtype),
          [i \in DOMAIN t.rows |-> Append(t.rows[i], cells[i])])

\* self.df[col] = cells: the column of that label is replaced where it is,
\* a new label is added at the end.
AssignColumn(t, col, dtype, cells) ==
    IF col \in Range(t.cols)
    THEN LET at == IndexOf(t.cols, col)
         IN  Frame(t.cols, [t.dtypes EXCEPT ![at] = dtype],
                   [i \in DOMAIN t.rows |-> [t.rows[i] EXCEPT ![at] = cells[i]]])
    ELSE Frame(Append(t.cols, col), Append(t.dtypes, dtype),
               [i \in DOMAIN t.rows |-> Append(t.rows[i], cells[i])])

(***************************************************************************)
(* perform_clustering_analysis(n_clusters, features), lines 147-172: what  *)
(* it returns or raises, self.df afterwards, and the features it used.     *)
(* The returned centres and inertia are reals that nothing here reads.     *)
(***************************************************************************)
perform_clustering_analysis(t, n_clusters, features_arg, init) ==
    IF t.none THEN [ret |-> ReturnNone, df |-> t, features |-> <<>>]
    ELSE
    LET features == IF features_arg.none THEN Take(numeric_cols(t), MaxFeatures)
                    ELSE features_arg.cols
        known == \A f \in DOMAIN features : features[f] \in Range(t.cols)
        X == FeatureMatrix(t, features)
        numbers == \A i \in DOMAIN X : \A f \in DOMAIN features : X[i][f].t = "num"
        values == AsTuple([i \in DOMAIN X |->
                              AsTuple([f \in DOMAIN features |-> X[i][f].n])])
        clusters == fit_predict(values, Len(features), init)
        raise(exc) == [ret |-> Raised(exc), df |-> t, features |-> features]
    IN  IF ~known THEN raise("KeyError")                          \* line 158
        ELSE IF Len(t.rows) = 0 \/ features = <<>> \/ ~numbers
             THEN raise("ValueError")                             \* line 161
        ELSE IF Len(t.rows) < n_clusters THEN raise("ValueError") \* line 164
        ELSE [ret |-> [exc |-> "none", none |-> FALSE, clusters |-> clusters],
              df |-> AssignColumn(t, "cluster", "int32",
                                  [i \in DOMAIN clusters |-> Num(clusters[i])]),
              features |-> features]

(***************************************************************************)
(* The tables that are clustered and the arguments of the calls.           *)
(***************************************************************************)
\* Layouts of the tables of up to MaxARows rows.
ClusterLayouts ==
    { << <<"Total_Teachers", "int64">>, <<"Drinking_Water", "float64">> >>,
      << <<"State", "object">>, <<"Total_Teachers", "int64">> >> }

\* A table of up to MaxCRows rows with one numeric column.
ClusterTable(t) ==
    \E n \in 0..MaxCRows :
       \E rows \in [1..n -> RowsOf(<<"int64">>)] :
          t = Frame(<<"Total_Teachers">>, <<"int64">>, rows)

FeatureArgs ==
    {FeaturesNone,
     FeatureList(<<"Total_Teachers">>),
     FeatureList(<<"Total_Teachers", "Drinking_Water">>),
     FeatureList(<<"State">>)}

ClusteringInit ==
    /\ MergeIdle
    /\ \/ base_df = None
       \/ ValueTable(base_df, ClusterLayouts)
       \/ ClusterTable(base_df)
    /\ repeat = 1
    /\ self_df = base_df
    /\ call = "idle"
    /\ ret = ReturnNone
    /\ runs = <<>>

\* EducationPolicyAnalyzer(data_path=...) on the data that was read before.
Construct ==
    /\ runs # <<>>
    /\ self_df' = base_df
    /\ call' = "__init__"
    /\ ret' = ReturnNone
    /\ UNCHANGED <<base_df, repeat, runs, mergeVars>>

CallClusteringAnalysis ==
    /\ Len(runs) < MaxRuns
    /\ \E n_clusters \in 1..MaxClusters, features \in FeatureArgs :
       \E init \in Centres(Len(self_df.rows), n_clusters) :
          /\ KMeansInit(random_state, Len(self_df.rows), n_clusters, init)
          /\ LET out == perform_clustering_analysis(self_df, n_clusters, features, init)
             IN  /\ self_df' = out.df
                 /\ call' = "perform_clustering_analysis"
                 /\ ret' = out.ret
                 /\ runs' = Append(runs, [df |-> self_df,
                                          features_arg |-> features,
                                          features |-> out.features,
                                          n_clusters |-> n_clusters,
                                          ret |-> out.ret])
    /\ UNCHANGED <<base_df, repeat, mergeVars>>

ClusteringNext ==
    \/ Construct
    \/ CallClusteringAnalysis

SpecClustering == ClusteringInit /\ [][ClusteringNext]_vars

(***************************************************************************)
(* Vocabulary of the properties of perform_clustering_analysis.            *)
(***************************************************************************)
\* The run returned labels.
Clustered(run) == ~run.ret.none /\ run.ret.exc = "none"

\* Two runs were given the same table, the same features and the same k.
SameInput(a, b) ==
    /\ a.df = b.df
    /\ a.features = b.features
    /\ a.n_clusters = b.n_clusters

\* The table t without its columns labelled col.
Without(t, col) ==
    LET keep == SelectSeq([j \in DOMAIN t.cols |-> j], LAMBDA j : t.cols[j] # col)
    IN  Frame([a \in DOMAIN keep |-> t.cols[keep[a]]],
              [a \in DOMAIN keep |-> t.dtypes[keep[a]]],
              [i \in DOMAIN t.rows |-> [a \in DOMAIN keep |-> t.rows[i][keep[a]]]])

\* The last of the runs that returned labels.
LastClustered ==
    runs[CHOOSE i \in DOMAIN runs :
            /\ Clustered(runs[i])
            /\ \A j \in DOMAIN runs : Clustered(runs[j]) => j <= i]

\* self.df as the run left it.
TableAfter(run) ==
    IF Clustered(run)
    THEN AssignColumn(run.df, "cluster", "int32",
                      [i \in DOMAIN run.ret.clusters |-> Num(run.ret.clusters[i])])
    ELSE run.df

C14_OnlyClusterColumnChanges ==
    /\ Returned("perform_clustering_analysis") =>
          /\ "cluster" \in Range(self_df.cols)
          /\ LastClustered.ret = ret
    /\ (~self_df.none /\ "cluster" \in Range(self_df.cols)) =>
          LET labels == LastClustered.ret.clusters
              k == LastClustered.n_clusters
          IN  /\ Cardinality({j \in DOMAIN self_df.cols : self_df.cols[j] = "cluster"}) = 1
              /\ Len(labels) = Len(self_df.rows)
              /\ \A i \in DOMAIN self_df.rows :
                    /\ labels[i] \in 0..(k - 1)
                    /\ Column(self_df, "cluster")[i] = Num(labels[i])
              /\ Len(self_df.rows) = Len(base_df.rows)
              /\ Without(self_df, "cluster") = base_df

\* A second run on the same analyzer, over a table with a missing cell,
\* whose labels differ from the first run's.
C14_Witness ==
    /\ call = "perform_clustering_analysis"
    /\ Len(runs) = 2
    /\ Clustered(runs[1]) /\ Clustered(runs[2])
    /\ runs[2].df = TableAfter(runs[1])
    /\ runs[2].ret.clusters # runs[1].ret.clusters
    /\ \E i \in DOMAIN base_df.rows : \E j \in DOMAIN base_df.cols :
          base_df.rows[i][j] = Missing /\ base_df.cols[j] \in Range(runs[2].features)

(***************************************************************************)
(* C16: two calls of perform_clustering_analysis in a row on one analyzer, *)
(* both with features left unspecified, use the same features: the         *)
(* 'cluster' column of the first run is not a feature of the second, and   *)
(* with fewer than 20 numeric columns the second run's labels are the      *)
(* first run's.                                                            *)
(***************************************************************************)
C16_RerunUsesSameFeatures ==
    \A i \in DOMAIN runs : \A j \in DOMAIN runs :
       (/\ j = i + 1
        /\ runs[j].df = TableAfter(runs[i])
        /\ runs[i].features_arg.none /\ runs[j].features_arg.none
        /\ Clustered(runs[i]))
       => /\ runs[j].features = runs[i].features
          /\ "cluster" \notin Range(runs[j].features)
          /\ (/\ runs[j].n_clusters = runs[i].n_clusters
              /\ Len(numeric_cols(runs[i].df)) < MaxFeatures)
             => (Clustered(runs[j]) /\ runs[j].ret.clusters = runs[i].ret.clusters)

=============================================================================
